---- MODULE Spec2Model ----
(***************************************************************************)
(* Model of API&aggregate_ERA5_land.py: api_era5_land (the monthly         *)
(* downloader) and aggregate_era5_land_timeseries (the yearly aggregator). *)
(* Strings are sequences of one-character strings, so that formatting and  *)
(* parsing are computed and not assumed.  The print calls are diagnostics  *)
(* and are left out.  A definition whose comment starts with "variant" is  *)
(* the definition after it with one fault injected; no specification uses  *)
(* it.                                                                     *)
(***************************************************************************)
EXTENDS Integers, Sequences, FiniteSets, TLC

VARIABLES
    pc,            \* position in the running function
    err,           \* the exception that reached the caller, "none" if none
    start_year, start_month, end_year, end_month, target_path,
    date_list,     \* api_era5_land: list of (year, month) built by the while loop
    current,       \* api_era5_land: the while loop's cursor, <<year, month>>
    idx,           \* api_era5_land: position of the for loop in date_list
    calls,         \* api_era5_land: the client.retrieve calls made so far
    save,          \* aggregate_era5_land_timeseries: the save argument
    fs,            \* the directory: a set of files [name, data]
    year,          \* aggregate: the for loop's variable
    ds_variable,   \* aggregate: the running combined dataset
    written,       \* aggregate: the to_netcdf calls of this call
    returned,      \* aggregate: the value returned, NoValue before the return
    visited,       \* aggregate: the years whose loop iteration has run
    run,           \* aggregate: 1 in the first call, 2 in the repeated call
    previous       \* aggregate: what the first call returned and wrote

fvars == <<start_month, end_month, target_path, date_list, current, idx, calls>>

avars == <<save, fs, year, ds_variable, written, returned, visited, run,
           previous>>

vars == <<pc, err, start_year, end_year, fvars, avars>>

-----------------------------------------------------------------------------
(* Bounds of the model *)

\* longest requested range, in months after the start month
MaxSpan == 13

\* start years tried: a century non-leap year, a 400-year leap year, an
\* ordinary year before a leap year, one- and three-digit years, and the
\* last two years datetime can represent
StartYears == {1, 999, 1900, 2000, 2023, 9998, 9999}

TargetPaths == { <<"d">>, <<"1", "_", "m", "/", "9">> }

-----------------------------------------------------------------------------
(* datetime and calendar *)

MINYEAR == 1
MAXYEAR == 9999

\* datetime(year, month, 1) raises ValueError outside these ranges
\* (datetime.MINYEAR, datetime.MAXYEAR)
ValidDate(yr, mo) ==
    /\ yr >= MINYEAR /\ yr <= MAXYEAR
    /\ mo >= 1 /\ mo <= 12

\* datetime <= datetime, both on day 1
DateLE(a, b) == a[1] < b[1] \/ (a[1] = b[1] /\ a[2] <= b[2])

mdays == <<31, 28, 31, 30, 31, 30, 31, 31, 30, 31, 30, 31>>

\* variant: the Julian rule, every fourth year
isleap_div4(yr) == yr % 4 = 0

isleap(yr) == yr % 4 = 0 /\ (yr % 100 # 0 \/ yr % 400 = 0)

\* calendar.monthrange(year, month)[1]
monthrange(yr, mo) ==
    mdays[mo] + (IF mo = 2 /\ isleap(yr) THEN 1 ELSE 0)

-----------------------------------------------------------------------------
(* String formatting *)

Digits == <<"0", "1", "2", "3", "4", "5", "6", "7", "8", "9">>

RECURSIVE Str(_)
\* str(n) and f"{n}" for n >= 0
Str(n) == IF n < 10 THEN <<Digits[n + 1]>>
          ELSE Str(n \div 10) \o <<Digits[(n % 10) + 1]>>

\* f"{n:02d}" and f"{n:02}" for n >= 0
Fmt02(n) == IF n < 10 THEN <<"0">> \o Str(n) ELSE Str(n)

days_list(days_in_month) == [day \in 1..days_in_month |-> Fmt02(day)]

time_list == [i \in 1..24 |-> Fmt02(i - 1) \o <<":", "0", "0">>]

Request(yr, mo) ==
    [ variable |-> "variables",
      year     |-> Str(yr),
      month    |-> Fmt02(mo),
      day      |-> days_list(monthrange(yr, mo)),
      time     |-> time_list,
      data_format |-> "grib",
      download_format |-> "unarchived",
      area     |-> "area" ]

\* variant: the year is left out of the file name
Target_month_only(path, yr, mo) ==
    path \o <<"/">> \o <<"m", "o", "n", "t", "h", "s">> \o Fmt02(mo)
         \o <<"_", "e", "u", "r", "o", "p", "e", ".", "g", "r", "i", "b">>

\* f"{target_path}/{year}_months{month_str}_europe.grib"
Target(path, yr, mo) ==
    path \o <<"/">> \o Str(yr) \o <<"_", "m", "o", "n", "t", "h", "s">>
         \o Fmt02(mo)
         \o <<"_", "e", "u", "r", "o", "p", "e", ".", "g", "r", "i", "b">>

-----------------------------------------------------------------------------
(* api_era5_land *)

\* months from a to b, a <= b
MonthsBetween(a, b) == (b[1] - a[1]) * 12 + (b[2] - a[2])

FetchInit ==
    /\ start_year \in StartYears
    /\ start_month \in 1..12
    /\ end_year \in {y \in start_year..(start_year + 2) : y <= MAXYEAR}
    /\ end_month \in 1..12
    /\ MonthsBetween(<<start_year, start_month>>, <<end_year, end_month>>)
           \in (-1)..MaxSpan
    /\ target_path \in TargetPaths
    /\ current = <<start_year, start_month>>
    /\ date_list = <<>>
    /\ idx = 0
    /\ calls = <<>>
    /\ pc = "while"
    /\ err = "none"
    /\ save = FALSE
    /\ fs = {}
    /\ year = 0
    /\ ds_variable = <<>>
    /\ written = <<>>
    /\ returned = <<>>
    /\ visited = <<>>
    /\ run = 0
    /\ previous = <<>>

\* one iteration of the while loop that builds date_list
WhileStep ==
    /\ pc = "while"
    /\ DateLE(current, <<end_year, end_month>>)
    /\ date_list' = Append(date_list, current)
    /\ IF current[2] = 12
       THEN IF ValidDate(current[1] + 1, 1)
            THEN /\ current' = <<current[1] + 1, 1>>
                 /\ UNCHANGED <<pc, err>>
            ELSE /\ pc' = "raised"
                 /\ err' = "ValueError"
                 /\ UNCHANGED current
       ELSE /\ current' = <<current[1], current[2] + 1>>
            /\ UNCHANGED <<pc, err>>
    /\ UNCHANGED <<start_year, start_month, end_year, end_month, target_path,
                   idx, calls>>
    /\ UNCHANGED avars

\* the while loop ends; client = cdsapi.Client()
CreateClient ==
    /\ pc = "while"
    /\ ~ DateLE(current, <<end_year, end_month>>)
    /\ pc' = "for"
    /\ idx' = 1
    /\ UNCHANGED <<err, start_year, start_month, end_year, end_month,
                   target_path, date_list, current, calls>>
    /\ UNCHANGED avars

Call(ym) ==
    [ ym      |-> ym,
      request |-> Request(ym[1], ym[2]),
      target  |-> Target(target_path, ym[1], ym[2]) ]

\* one iteration of the for loop, client.retrieve returns
RetrieveOK ==
    /\ pc = "for"
    /\ idx <= Len(date_list)
    /\ calls' = Append(calls, Call(date_list[idx]))
    /\ idx' = idx + 1
    /\ UNCHANGED <<pc, err, start_year, start_month, end_year, end_month,
                   target_path, date_list, current>>
    /\ UNCHANGED avars

\* variant: the error is noted and the loop goes on to the next month
RetrieveRaises_continue ==
    /\ pc = "for"
    /\ idx <= Len(date_list)
    /\ calls' = Append(calls, Call(date_list[idx]))
    /\ idx' = idx + 1
    /\ err' = "RetrieveError"
    /\ UNCHANGED <<pc, start_year, start_month, end_year, end_month,
                   target_path, date_list, current>>
    /\ UNCHANGED avars

\* one iteration of the for loop, client.retrieve raises: nothing catches it
RetrieveRaises ==
    /\ pc = "for"
    /\ idx <= Len(date_list)
    /\ calls' = Append(calls, Call(date_list[idx]))
    /\ pc' = "raised"
    /\ err' = "RetrieveError"
    /\ UNCHANGED <<start_year, start_month, end_year, end_month,
                   target_path, date_list, current, idx>>
    /\ UNCHANGED avars

\* the for loop ends, the function returns
FetchReturn ==
    /\ pc = "for"
    /\ idx > Len(date_list)
    /\ pc' = "done"
    /\ UNCHANGED <<err, start_year, start_month, end_year, end_month,
                   target_path, date_list, current, idx, calls>>
    /\ UNCHANGED avars

FetchNext ==
    \/ WhileStep
    \/ CreateClient
    \/ RetrieveOK
    \/ RetrieveRaises
    \/ FetchReturn

SpecFetch == FetchInit /\ [][FetchNext]_vars

-----------------------------------------------------------------------------
(* aggregate_era5_land_timeseries: the data *)

\* years the directory may hold files for, from the default start_year
FirstYear == 2009
Years == FirstYear..(FirstYear + 2)

\* instants inside one year, in chronological order
Slots == {1, 2}

\* rows in all the files of the directory together
MaxRows == 2

\* what a file name has between "_months" and "_europe.grib"
MonthTags == { <<"0", "1">>, <<"1", "2">> }

\* the data variables of the GRIB files
Vars == {"t2m", "tp"}

\* a timestamp is <<calendar year, instant inside the year>>
TimeLess(a, b) == a[1] < b[1] \/ (a[1] = b[1] /\ a[2] < b[2])

\* valid_time.dt.year
YearOf(t) == t[1]

\* the (time, step) cells a file of year y may hold after stacking: a
\* valid_time and the variables that hold a value at some grid point (the
\* others are NaN). The cells lie at the instants of the year, with a value
\* or with every variable missing, or at the first instant of the year after
\* (the last step of 31 December)
RowsOf(y) ==
    [valid_time : {<<y, k>> : k \in Slots}, vals : {{}, {"t2m"}}]
        \cup [valid_time : {<<y + 1, 1>>}, vals : {{"t2m"}}]

GribName(y, tag) ==
    Str(y) \o <<"_", "m", "o", "n", "t", "h", "s">> \o tag
         \o <<"_", "e", "u", "r", "o", "p", "e", ".", "g", "r", "i", "b">>

\* f"inflows_var_era5_{start_year}to{end_year}.nc"
OutName(from, to) ==
    <<"i", "n", "f", "l", "o", "w", "s", "_", "v", "a", "r", "_",
      "e", "r", "a", "5", "_">> \o Str(from) \o <<"t", "o">> \o Str(to)
         \o <<".", "n", "c">>

\* the index file the cfgrib engine leaves next to a GRIB file it opens
IdxName(name) == name \o <<".", "i", "d", "x">>

\* the non-empty sequences over S of length at most n
SeqsUpTo(S, n) == UNION {[1..k -> S] : k \in 1..n}

RECURSIVE Directories(_, _)
\* the directories that hold, for each (year, tag) of slots, no file or one
\* file of at least one row, with at most budget rows in all
Directories(slots, budget) ==
    IF slots = {} THEN {{}}
    ELSE LET s    == CHOOSE x \in slots : TRUE
             rest == [k \in 0..budget |-> Directories(slots \ {s}, k)]
         IN  rest[budget]
             \cup UNION {
                    { {[name |-> GribName(s[1], s[2]), data |-> d]} \cup r :
                        r \in rest[budget - Len(d)] } :
                    d \in SeqsUpTo(RowsOf(s[1]), budget) }

\* the directories tried. The input and the output path are taken to be the
\* same directory, the case in which a call can meet the files it wrote
InputDirectories == Directories(Years \X MonthTags, MaxRows)

-----------------------------------------------------------------------------
(* aggregate_era5_land_timeseries: glob, xarray *)

StartsWith(s, p) == Len(s) >= Len(p) /\ SubSeq(s, 1, Len(p)) = p

EndsWith(s, p) ==
    Len(s) >= Len(p) /\ SubSeq(s, Len(s) - Len(p) + 1, Len(s)) = p

Contains(s, p) ==
    \E i \in 1..(Len(s) - Len(p) + 1) : SubSeq(s, i, i + Len(p) - 1) = p

\* variant: the looser pattern f"*{year}*"
Matches_anywhere(name, y) == Contains(name, Str(y))

\* fnmatch of a base name against f"{year}_months*_europe.grib"
Matches(name, y) ==
    LET prefix == Str(y) \o <<"_", "m", "o", "n", "t", "h", "s">>
        suffix == <<"_", "e", "u", "r", "o", "p", "e", ".", "g", "r", "i", "b">>
    IN  /\ Len(name) >= Len(prefix) + Len(suffix)
        /\ StartsWith(name, prefix)
        /\ EndsWith(name, suffix)

\* the characters of the file names, in code point order
Alphabet ==
    <<".", "/", "0", "1", "2", "3", "4", "5", "6", "7", "8", "9", "_",
      "a", "b", "c", "d", "e", "f", "g", "h", "i", "j", "k", "l", "m",
      "n", "o", "p", "q", "r", "s", "t", "u", "v", "w", "x", "y", "z">>

Ord(c) == CHOOSE i \in 1..Len(Alphabet) : Alphabet[i] = c

RECURSIVE StrLess(_, _)
\* str < str
StrLess(a, b) ==
    IF Len(b) = 0 THEN FALSE
    ELSE IF Len(a) = 0 THEN TRUE
    ELSE IF a[1] # b[1] THEN Ord(a[1]) < Ord(b[1])
    ELSE StrLess(Tail(a), Tail(b))

RECURSIVE Sorted(_)
\* sorted(names): the names of a set in ascending order
Sorted(names) ==
    IF names = {} THEN <<>>
    ELSE LET m == CHOOSE x \in names : \A z \in names \ {x} : StrLess(x, z)
         IN  <<m>> \o Sorted(names \ {m})

\* sorted(glob.glob(grib_pattern))
Glob(dir, y) == Sorted({f.name : f \in {g \in dir : Matches(g.name, y)}})

DataOf(dir, name) == (CHOOSE f \in dir : f.name = name).data

RECURSIVE Stacked(_, _, _)
\* open_mfdataset over the files, then stack(time, step) with valid_time as
\* the dimension: the cells of the files one after the other, each tagged
\* with the year whose files it was read from
Stacked(dir, names, y) ==
    IF names = <<>> THEN <<>>
    ELSE [i \in 1..Len(DataOf(dir, Head(names))) |->
            [valid_time |-> DataOf(dir, Head(names))[i].valid_time,
             vals       |-> DataOf(dir, Head(names))[i].vals,
             src        |-> y]]
         \o Stacked(dir, Tail(names), y)

\* where(valid_time.dt.year == year, drop=True)
where_year(rows, y) == SelectSeq(rows, LAMBDA r : YearOf(r.valid_time) = y)

RECURSIVE Insert(_, _)
\* r placed after the rows of an ascending sequence that are not after it
Insert(rows, r) ==
    IF rows = <<>> THEN <<r>>
    ELSE IF TimeLess(r.valid_time, Head(rows).valid_time) THEN <<r>> \o rows
    ELSE <<Head(rows)>> \o Insert(Tail(rows), r)

RECURSIVE InsertAll(_, _)
InsertAll(acc, rows) ==
    IF rows = <<>> THEN acc ELSE InsertAll(Insert(acc, Head(rows)), Tail(rows))

\* variant: no sort
sortby_nothing(rows) == rows

\* sortby("valid_time"): a stable sort, rows of equal valid_time all kept
sortby(rows) == InsertAll(<<>>, rows)

\* variant: no dropna
dropna_nothing(rows) == rows

\* dropna(dim="valid_time", how="all")
dropna(rows) == SelectSeq(rows, LAMBDA r : r.vals # {})

\* xr.Dataset()
EmptyDataset == [data_vars |-> {}, rows |-> <<>>]

\* bool(dataset): whether it has data variables
Truthy(ds) == ds.data_vars # {}

\* variant: xr.concat([b, a], dim="valid_time")
concat_reversed(a, b) ==
    [data_vars |-> a.data_vars \cup b.data_vars, rows |-> b.rows \o a.rows]

\* xr.concat([a, b], dim="valid_time")
concat(a, b) ==
    [data_vars |-> a.data_vars \cup b.data_vars, rows |-> a.rows \o b.rows]

NoValue == [none |-> TRUE]

-----------------------------------------------------------------------------
(* aggregate_era5_land_timeseries *)

AggInit ==
    /\ start_year \in Years
    /\ end_year \in {y \in Years : start_year <= y}
    /\ save \in BOOLEAN
    /\ fs \in InputDirectories
    /\ ds_variable = EmptyDataset
    /\ year = start_year
    /\ written = <<>>
    /\ returned = NoValue
    /\ visited = <<>>
    /\ run = 1
    /\ previous = NoValue
    /\ pc = "for"
    /\ err = "none"
    /\ start_month = 0
    /\ end_month = 0
    /\ target_path = <<>>
    /\ date_list = <<>>
    /\ current = <<>>
    /\ idx = 0
    /\ calls = <<>>

\* variant: break instead of continue when the year has no file
ForYear_break ==
    /\ pc = "for"
    /\ year <= end_year
    /\ visited' = Append(visited, year)
    /\ LET grib_files == Glob(fs, year)
       IN  IF grib_files = <<>>
           THEN /\ year' = end_year + 1
                /\ UNCHANGED <<fs, ds_variable>>
           ELSE LET ds_ready ==
                      [data_vars |-> Vars,
                       rows |-> dropna(sortby(where_year(
                                   Stacked(fs, grib_files, year), year)))]
                IN  /\ fs' = fs \cup {[name |-> IdxName(grib_files[i]),
                                       data |-> <<>>] :
                                         i \in 1..Len(grib_files)}
                    /\ ds_variable' = IF Truthy(ds_variable)
                                      THEN concat(ds_variable, ds_ready)
                                      ELSE ds_ready
                    /\ year' = year + 1
    /\ UNCHANGED <<pc, err, start_year, end_year, save, written, returned,
                   run, previous, fvars>>

\* one iteration of the loop over range(start_year, end_year + 1)
ForYear ==
    /\ pc = "for"
    /\ year <= end_year
    /\ visited' = Append(visited, year)
    /\ year' = year + 1
    /\ LET grib_files == Glob(fs, year)
       IN  IF grib_files = <<>>
           THEN UNCHANGED <<fs, ds_variable>>
           ELSE LET ds_ready ==
                      [data_vars |-> Vars,
                       rows |-> dropna(sortby(where_year(
                                   Stacked(fs, grib_files, year), year)))]
                IN  /\ fs' = fs \cup {[name |-> IdxName(grib_files[i]),
                                       data |-> <<>>] :
                                         i \in 1..Len(grib_files)}
                    /\ ds_variable' = IF Truthy(ds_variable)
                                      THEN concat(ds_variable, ds_ready)
                                      ELSE ds_ready
    /\ UNCHANGED <<pc, err, start_year, end_year, save, written, returned,
                   run, previous, fvars>>

\* to_netcdf replaces the file of that name
WriteFile(dir, name, data) ==
    {f \in dir : f.name # name} \cup {[name |-> name, data |-> data]}

\* variant: to_netcdf whatever save is
Finish_always_saves ==
    /\ pc = "for"
    /\ year > end_year
    /\ fs' = WriteFile(fs, OutName(start_year, end_year), ds_variable.rows)
    /\ written' = Append(written,
                         [name |-> OutName(start_year, end_year),
                          data |-> ds_variable])
    /\ returned' = ds_variable
    /\ pc' = "done"
    /\ UNCHANGED <<err, start_year, end_year, save, year, ds_variable,
                   visited, run, previous, fvars>>

\* after the loop: to_netcdf if save, then return ds_variable
Finish ==
    /\ pc = "for"
    /\ year > end_year
    /\ IF save
       THEN /\ fs' = WriteFile(fs, OutName(start_year, end_year),
                               ds_variable.rows)
            /\ written' = Append(written,
                                 [name |-> OutName(start_year, end_year),
                                  data |-> ds_variable])
       ELSE UNCHANGED <<fs, written>>
    /\ returned' = ds_variable
    /\ pc' = "done"
    /\ UNCHANGED <<err, start_year, end_year, save, year, ds_variable,
                   visited, run, previous, fvars>>

\* the caller calls the function again with the same arguments and
\* save = True, on the directory as the first call left it
CallAgain ==
    /\ pc = "done"
    /\ run = 1
    /\ save
    /\ run' = 2
    /\ previous' = [returned |-> returned, written |-> written]
    /\ ds_variable' = EmptyDataset
    /\ year' = start_year
    /\ written' = <<>>
    /\ returned' = NoValue
    /\ visited' = <<>>
    /\ pc' = "for"
    /\ UNCHANGED <<err, start_year, end_year, save, fs, fvars>>

AggNext ==
    \/ ForYear
    \/ Finish
    \/ CallAgain

SpecAgg == AggInit /\ [][AggNext]_vars

-----------------------------------------------------------------------------
(* Properties of api_era5_land *)

DigitVal(c) == IF \E d \in 0..9 : Digits[d + 1] = c
               THEN CHOOSE d \in 0..9 : Digits[d + 1] = c
               ELSE -1

IsDigits(s) == Len(s) > 0 /\ \A i \in 1..Len(s) : DigitVal(s[i]) >= 0

RECURSIVE ParseInt(_)
\* the number a string of decimal digits denotes
ParseInt(s) == IF Len(s) = 0 THEN 0
               ELSE 10 * ParseInt(SubSeq(s, 1, Len(s) - 1)) + DigitVal(s[Len(s)])

\* the calendar months from (start_year, start_month) to (end_year, end_month)
\* inclusive, in order, counted on the month number year * 12 + (month - 1)
RangeMonths ==
    LET first == start_year * 12 + (start_month - 1)
        last  == end_year * 12 + (end_month - 1)
    IN  [i \in 1..(last - first + 1) |->
            <<(first + i - 1) \div 12, ((first + i - 1) % 12) + 1>>]

\* the (year, month) each retrieve call asked for, read back from the request
RequestedMonths ==
    [i \in 1..Len(calls) |->
        <<ParseInt(calls[i].request.year), ParseInt(calls[i].request.month)>>]

IsPrefix(s, t) == Len(s) <= Len(t) /\ \A i \in 1..Len(s) : s[i] = t[i]

StartLEEnd == DateLE(<<start_year, start_month>>, <<end_year, end_month>>)

Terminated == pc \in {"done", "raised"}

\* C1: for every range with start <= end, when no retrieval fails,
\* api_era5_land issues exactly one retrieve request for each calendar month
\* of the inclusive range, in particular across December to January, and
\* none outside it.
C1_OneRequestPerMonth ==
    (Terminated /\ err # "RetrieveError" /\ StartLEEnd)
        => RequestedMonths = RangeMonths

\* C1 holds wherever the month after the end month is a date datetime can
\* represent, that is for every end before December of MAXYEAR.
C1_BeforeLastMonth ==
    (Terminated /\ err # "RetrieveError" /\ StartLEEnd
        /\ <<end_year, end_month>> # <<MAXYEAR, 12>>)
        => (pc = "done" /\ RequestedMonths = RangeMonths)

C1_BeforeLastMonth_Witness ==
    /\ pc = "done"
    /\ Len(calls) = MaxSpan + 1
    /\ \E i \in 1..(Len(calls) - 1) :
          /\ RequestedMonths[i][2] = 12
          /\ RequestedMonths[i + 1] = <<RequestedMonths[i][1] + 1, 1>>

\* the number of days of a month of the Gregorian calendar
GregorianDays(yr, mo) ==
    IF mo \in {4, 6, 9, 11} THEN 30
    ELSE IF mo # 2 THEN 31
    ELSE IF yr % 400 = 0 THEN 29
    ELSE IF yr % 100 = 0 THEN 28
    ELSE IF yr % 4 = 0 THEN 29
    ELSE 28

\* n < 100 written with exactly two decimal digits
TwoDigits(n) == <<Digits[(n \div 10) + 1], Digits[(n % 10) + 1]>>

\* C2: every request built for a month (year, month) carries the days 01..N
\* in order as two-character zero-padded strings, N being the number of days
\* of that month in the Gregorian calendar, and exactly the 24 hour strings
\* 00:00 .. 23:00.
C2_DayAndHourLists ==
    \A i \in 1..Len(calls) :
        LET r == calls[i].request
            n == GregorianDays(calls[i].ym[1], calls[i].ym[2])
        IN  /\ r.day = [d \in 1..n |-> TwoDigits(d)]
            /\ r.time = [k \in 1..24 |-> TwoDigits(k - 1) \o <<":", "0", "0">>]

\* one run built requests for the February of a leap year, for a 30-day
\* month and for a 31-day month
C2_Witness ==
    /\ \E i \in 1..Len(calls) :
          calls[i].ym[2] = 2 /\ Len(calls[i].request.day) = 29
    /\ \E i \in 1..Len(calls) :
          calls[i].ym[2] = 4 /\ Len(calls[i].request.day) = 30
    /\ \E i \in 1..Len(calls) :
          calls[i].ym[2] = 12 /\ Len(calls[i].request.day) = 31

\* the (year, month) a target file name encodes, <<-1, -1>> if it has not
\* the shape {target_path}/{digits}_months{2 digits}_europe.grib
DecodeTarget(target) ==
    LET p    == Len(target_path) + 1
        name == SubSeq(target, p + 1, Len(target))
        us   == {i \in 1..Len(name) : name[i] = "_"}
    IN  IF Len(target) <= p \/ SubSeq(target, 1, p) # target_path \o <<"/">>
           \/ us = {}
        THEN <<-1, -1>>
        ELSE LET u  == CHOOSE i \in us : \A j \in us : i <= j
                 ys == SubSeq(name, 1, u - 1)
                 ms == SubSeq(name, u + 7, u + 8)
             IN  IF /\ IsDigits(ys)
                    /\ Len(ms) = 2 /\ IsDigits(ms)
                    /\ SubSeq(name, u, u + 6)
                         = <<"_", "m", "o", "n", "t", "h", "s">>
                    /\ SubSeq(name, u + 9, Len(name))
                         = <<"_", "e", "u", "r", "o", "p", "e", ".",
                             "g", "r", "i", "b">>
                 THEN <<ParseInt(ys), ParseInt(ms)>>
                 ELSE <<-1, -1>>

\* C3: within one run the target file names are pairwise distinct for
\* distinct (year, month) pairs, and each name determines its (year, month).
C3_TargetsDistinct ==
    /\ \A i, j \in 1..Len(calls) :
          calls[i].ym # calls[j].ym => calls[i].target # calls[j].target
    /\ \A i \in 1..Len(calls) : DecodeTarget(calls[i].target) = calls[i].ym

\* a run that requested the same month number in two different years, and a
\* one-digit month next to a two-digit one
C3_Witness ==
    /\ \E i, j \in 1..Len(calls) :
          /\ calls[i].ym[2] = calls[j].ym[2]
          /\ calls[i].ym[1] # calls[j].ym[1]
    /\ \E i, j \in 1..Len(calls) : calls[i].ym[2] = 1 /\ calls[j].ym[2] = 11

C9_Order ==
    /\ IsPrefix(RequestedMonths, RangeMonths)
    /\ Len(calls) <= Len(date_list)
    /\ err = "RetrieveError" =>
          /\ pc = "raised"
          /\ Len(calls) = idx

\* C9: requests are issued one at a time in ascending chronological order;
\* when the retrieval for a month fails the error reaches the caller, that
\* month is not requested again, no later month is requested, and every
\* earlier month of the range has been requested exactly once.
C9_FailureStops ==
    /\ [] C9_Order
    /\ [][err = "RetrieveError" => (calls' = calls /\ pc' = "raised")]_vars

\* a retrieval failed after some months were fetched and before the last
\* month of a range that crosses a year boundary
C9_Witness ==
    /\ pc = "raised" /\ err = "RetrieveError"
    /\ Len(calls) >= 3
    /\ Len(calls) < Len(date_list)
    /\ calls[1].ym[1] # calls[Len(calls)].ym[1]

-----------------------------------------------------------------------------
(* Properties of aggregate_era5_land_timeseries *)

\* the years of range(start_year, end_year + 1), in order
YearRange == [i \in 1..(end_year - start_year + 1) |-> start_year + i - 1]

InRange(y) == start_year <= y /\ y <= end_year

\* the names of the input files of each year
GribNames == [y \in Years |-> {GribName(y, tag) : tag \in MonthTags}]

\* the input files of year y in the directory
GribFilesOf(y) == {f \in fs : f.name \in GribNames[y]}

\* the cells of the input files of year y, each with its file and position
InputCells(y) ==
    UNION { {[file |-> f.name, pos |-> i, row |-> f.data[i]] :
                i \in 1..Len(f.data)} : f \in GribFilesOf(y) }

\* the cells of year y's files that lie in year y and hold a value for at
\* least one variable
KeptCells(y) ==
    {c \in InputCells(y) : YearOf(c.row.valid_time) = y /\ c.row.vals # {}}

\* no timestamp occurs twice in the input files of the processed years
NoOverlap ==
    LET cells == UNION {InputCells(y) : y \in start_year..end_year}
    IN  \A c1, c2 \in cells :
            c1.row.valid_time = c2.row.valid_time => c1 = c2

StrictlyAscending(rows) ==
    \A i \in 1..(Len(rows) - 1) :
        TimeLess(rows[i].valid_time, rows[i + 1].valid_time)

NonDescending(rows) ==
    \A i \in 1..(Len(rows) - 1) :
        ~ TimeLess(rows[i + 1].valid_time, rows[i].valid_time)

C5_AllYearsVisited == pc = "done" => visited = YearRange

\* C5: a year of the range without input files raises nothing, leaves the
\* combined dataset as it is, and the loop goes on to the next year; every
\* year of the range has had its iteration when the function returns.
C5_SkipMissingYear ==
    /\ [] C5_AllYearsVisited
    /\ [][(pc = "for" /\ year <= end_year /\ GribFilesOf(year) = {})
            => /\ ds_variable' = ds_variable
               /\ year' = year + 1
               /\ pc' = "for"
               /\ err' = "none"]_vars

\* a year without files lay between two years whose rows were combined
C5_Witness ==
    /\ pc = "done"
    /\ \E y \in Years :
          /\ InRange(y) /\ GribFilesOf(y) = {}
          /\ \E i \in 1..Len(returned.rows) : returned.rows[i].src < y
          /\ \E i \in 1..Len(returned.rows) : returned.rows[i].src > y

\* C6: the combined dataset never holds a timestamp for which every variable
\* is missing, whatever number of years has been concatenated.
C6_NoAllMissingRow ==
    /\ \A i \in 1..Len(ds_variable.rows) : ds_variable.rows[i].vals # {}
    /\ returned # NoValue =>
          \A i \in 1..Len(returned.rows) : returned.rows[i].vals # {}

\* a file of the range held a cell of its own year with every variable
\* missing, and the dataset returned is not empty
C6_Witness ==
    /\ pc = "done"
    /\ Len(returned.rows) >= 1
    /\ \E y \in Years :
          /\ InRange(y)
          /\ \E c \in InputCells(y) :
                YearOf(c.row.valid_time) = y /\ c.row.vals = {}

C8_SecondRunIdentical ==
    (pc = "done" /\ run = 2 /\ save) =>
        /\ returned = previous.returned
        /\ written = previous.written

\* the second call ended with a non-empty dataset while the output file of
\* the first call was in the directory
C8_Witness ==
    /\ pc = "done" /\ run = 2 /\ save
    /\ Len(returned.rows) >= 1
    /\ Len(previous.written) = 1

\* the rows of the combined dataset that were read from the files of year y
Slice(y) == SelectSeq(ds_variable.rows, LAMBDA r : r.src = y)

====
